---- MODULE Spec2Model ----
(***************************************************************************)
(* Model of src/app.py: the ABAP SELECT * analyzer / remediator.           *)
(*                                                                         *)
(* Program text is modelled as TLA+ strings, character by character.       *)
(* Offsets follow Python: a span <<s, e>> is 0-based and half-open, so     *)
(* text[s:e] is SubSeq(text, s + 1, e).  Matchers take the 1-based index   *)
(* of the next character to match and return the index after the match,    *)
(* or 0 when the pattern does not match there.                             *)
(***************************************************************************)
EXTENDS Integers, Sequences, FiniteSets, TLC

VARIABLES units, endpoint, response, spSource, spRepls, spOut

vars == <<units, endpoint, response, spSource, spRepls, spOut>>

(* ------------------------------ bounds --------------------------------- *)

MaxUnits == 2
MaxRepls == 2

\* Optional[T]: None, or Some(x) for a value x
None == <<>>
Some(x) == <<x>>

\* the result of a pattern that did not match (matches are records)
NoMatch == [matched |-> FALSE]

(* --------------------------- character classes ------------------------- *)

Ch(s, i) == SubSeq(s, i, i)

LowerLetters == "abcdefghijklmnopqrstuvwxyz"
UpperLetters == "ABCDEFGHIJKLMNOPQRSTUVWXYZ"
DigitChars == "0123456789"

UpperSet == {Ch(UpperLetters, i) : i \in 1..26}

\* \w and [A-Za-z0-9_] (ASCII text)
WordChars == {Ch(LowerLetters, i) : i \in 1..26} \cup UpperSet
               \cup {Ch(DigitChars, i) : i \in 1..10} \cup {"_"}

\* \s
SpaceChars == {" ", "\n", "\t"}

LowerOf == [c \in UpperSet |->
              Ch(LowerLetters, CHOOSE i \in 1..26 : Ch(UpperLetters, i) = c)]

lowerCh(c) == IF c \in UpperSet THEN LowerOf[c] ELSE c

\* str.lower()
RECURSIVE lower(_)
lower(s) == IF s = "" THEN ""
            ELSE lowerCh(Ch(s, 1)) \o lower(SubSeq(s, 2, Len(s)))

IsWordAt(s, i) == i >= 1 /\ i <= Len(s) /\ Ch(s, i) \in WordChars
IsSpaceAt(s, i) == i >= 1 /\ i <= Len(s) /\ Ch(s, i) \in SpaceChars

\* \b between positions i-1 and i
WordBoundary(s, i) == IsWordAt(s, i - 1) # IsWordAt(s, i)

\* a keyword literal under re.IGNORECASE (kw given in lower case)
Lit(s, i, kw) ==
  IF /\ i >= 1
     /\ i + Len(kw) - 1 <= Len(s)
     /\ lowerCh(Ch(s, i)) = Ch(kw, 1)
     /\ lower(SubSeq(s, i, i + Len(kw) - 1)) = kw
  THEN i + Len(kw) ELSE 0

\* a literal matched exactly (no flags)
LitExact(s, i, str) ==
  IF i >= 1 /\ i + Len(str) - 1 <= Len(s) /\ SubSeq(s, i, i + Len(str) - 1) = str
  THEN i + Len(str) ELSE 0

\* \s* : index after the longest run of white space starting at i
RECURSIVE SkipSpace(_, _)
SkipSpace(s, i) == IF IsSpaceAt(s, i) THEN SkipSpace(s, i + 1) ELSE i

\* \s+
Space1(s, i) == IF i >= 1 /\ IsSpaceAt(s, i) THEN SkipSpace(s, i + 1) ELSE 0

\* index after the longest run of word characters starting at i
RECURSIVE SkipWord(_, _)
SkipWord(s, i) == IF IsWordAt(s, i) THEN SkipWord(s, i + 1) ELSE i

\* \w+ (greedy; every use is followed by something a word character cannot
\* match, or by a lazy/greedy run that makes the longest word the first
\* alternative tried)
Word1(s, i) == IF i >= 1 /\ IsWordAt(s, i) THEN SkipWord(s, i + 1) ELSE 0

Min(S) == CHOOSE x \in S : \A y \in S : x <= y

\* index of the first occurrence of character c at or after i, 0 if none
FindCh(s, i, c) ==
  LET hits == {j \in i..Len(s) : Ch(s, j) = c}
  IN  IF i < 1 \/ hits = {} THEN 0 ELSE Min(hits)

\* str.strip()
RECURSIVE rstrip(_)
rstrip(s) == IF s # "" /\ Ch(s, Len(s)) \in SpaceChars
             THEN rstrip(SubSeq(s, 1, Len(s) - 1)) ELSE s
strip(s) == rstrip(SubSeq(s, SkipSpace(s, 1), Len(s)))

(* ------------------------------ pattern engine ------------------------- *)

\* A pattern is an operator M(s, i): the match of the regular expression that
\* starts at index i of s, a record with the field end (the index after the
\* match), or NoMatch.  Applied to a string it is the function
\* p = [i \in 1..Len(s) |-> M(s, i)] of its matches at each index.

Range(l) == {l[k] : k \in 1..Len(l)}

\* the matches of p, each with the index it starts at
Hits(p) == {h \in {[start |-> i, m |-> p[i]] : i \in DOMAIN p} : h.m # NoMatch}

First(hits) == CHOOSE h \in hits : \A g \in hits : h.start <= g.start
Last(hits) == CHOOSE h \in hits : \A g \in hits : g.start <= h.start

Leftmost(hits) == IF hits = {} THEN NoMatch ELSE First(hits).m
Rightmost(hits) == IF hits = {} THEN NoMatch ELSE Last(hits).m

\* pattern.search(s): the leftmost match, NoMatch if there is none
search(p) == Leftmost(Hits(p))

\* the scan of finditer: the leftmost match starting at or after from, then
\* the scan resumed where that match ended
RECURSIVE Scan(_, _)
Scan(hits, from) ==
  LET later == {h \in hits : h.start >= from}
  IN  IF later = {} THEN <<>>
      ELSE <<First(later)>> \o Scan(hits, First(later).m.end)

\* pattern.finditer(s): the non-overlapping matches from left to right, each
\* with the index it starts at
finditer(p) == Scan(Hits(p), 1)

\* pattern.sub("", s): s without the matches finditer yields
RECURSIVE Remove(_, _, _)
Remove(s, ms, from) ==
  IF ms = <<>> THEN SubSeq(s, from, Len(s))
  ELSE SubSeq(s, from, ms[1].start - 1) \o Remove(s, SubSeq(ms, 2, Len(ms)), ms[1].m.end)

sub(p, s) == Remove(s, finditer(p), 1)

\* a or b of the regular expression, as indices: a when it matched
OrElse(a, b) == IF a # 0 THEN a ELSE b

\* KW\s+
Kw(s, i, kw) == Space1(s, Lit(s, i, kw))

(* --------------------------- statement locator ------------------------- *)

\* (?:SINGLE\s+)? at i: taken when it matches (the "*" that follows cannot
\* match where SINGLE does)
OptSingle(s, i) == OrElse(Kw(s, i, "single"), i)

\* SELECT\s+(?:SINGLE\s+)?\*\s+FROM\s+ : index where the table name starts
SelectHeadPrefix(s, i) ==
  Kw(s, Space1(s, LitExact(s, OptSingle(s, Kw(s, i, "select")), "*")), "from")

\* SELECT\s+(?:SINGLE\s+)?\*\s+FROM\s+\w+ : index after the table name
SelectHead(s, i) == Word1(s, SelectHeadPrefix(s, i))

\* the match at i whose table name is at ts..te-1 and whose period is at dot
SelectStmt(s, i, ts, te, dot) ==
  IF ts = 0 \/ te = 0 \/ dot = 0 THEN NoMatch
  ELSE [full  |-> SubSeq(s, i, dot),
        table |-> SubSeq(s, ts, te - 1),
        body  |-> SubSeq(s, te, dot - 1),
        span  |-> <<i - 1, dot>>,
        end   |-> dot + 1]

\* mutant of SelectFrom: a greedy body, which runs to the last period of s
SelectFromGreedy(s, i, ts) ==
  LET te   == Word1(s, ts)
      dots == {j \in te..Len(s) : Ch(s, j) = "."}
  IN  SelectStmt(s, i, ts, te,
                 IF te = 0 \/ dots = {} THEN 0 ELSE CHOOSE j \in dots : \A d \in dots : d <= j)

\* (?P<table>\w+)(?P<body>.*?)\. from ts: the body is lazy and . matches every
\* character (DOTALL), so it ends before the first period after the table name
SelectFrom(s, i, ts) ==
  LET te == Word1(s, ts) IN SelectStmt(s, i, ts, te, FindCh(s, te, "."))

\* SELECT_STAR_RE matched at i
SELECT_STAR_RE(s, i) == SelectFrom(s, i, SelectHeadPrefix(s, i))

\* \bINTO
BInto(s, i) == IF WordBoundary(s, i) THEN Lit(s, i, "into") ELSE 0

\* (?P<name>\w+)\b at a
Name(s, a) ==
  LET b == Word1(s, a)
  IN  IF b = 0 THEN NoMatch ELSE [name |-> SubSeq(s, a, b - 1), end |-> b]

\* INTO_TABLE_RE matched at i
INTO_TABLE_RE(s, i) == Name(s, Kw(s, Space1(s, BInto(s, i)), "table"))

\* (?!TABLE\b) at p
NotTable(s, p) ==
  IF Lit(s, p, "table") # 0 /\ WordBoundary(s, Lit(s, p, "table")) THEN 0 ELSE p

\* INTO_WA_RE matched at i
INTO_WA_RE(s, i) == Name(s, NotTable(s, Space1(s, BInto(s, i))))

\* re.search's pattern in build_replacement_stmt, matched at i
HeadTo(s, i, e) ==
  IF e = 0 THEN NoMatch ELSE [group0 |-> SubSeq(s, i, e - 1), end |-> e]

HeadMatch(s, i) == HeadTo(s, i, SelectHead(s, i))

(* ------------------- patterns of the binding resolver ------------------ *)

\* <(?P<fs>\w+)> : index after the closing bracket
FieldSymbol(s, i) == LitExact(s, Word1(s, LitExact(s, i, "<")), ">")

\* \s*\.
SpaceDot(s, i) == LitExact(s, SkipSpace(s, i), ".")

\* LOOP\s+AT\s+ : index where the table name starts
LoopAt(s, i) == Kw(s, Kw(s, i, "loop"), "at")

\* READ\s+TABLE\s+
ReadTable(s, i) == Kw(s, Kw(s, i, "read"), "table")

\* the alias at a..b-1 followed by \s*\.
AliasTo(s, a, b) ==
  LET e == SpaceDot(s, b)
  IN  IF a = 0 \/ b = 0 \/ e = 0 THEN NoMatch
      ELSE [alias |-> SubSeq(s, a, b - 1), end |-> e]

\* (?P<wa>\w+)\s*\. at a
WaAlias(s, a) == AliasTo(s, a, Word1(s, a))

\* <(?P<fs>\w+)>\s*\. at a; the alias is stored with its brackets
FsAlias(s, a) == AliasTo(s, a, FieldSymbol(s, a))

\* \s+INTO\s+(?P<wa>\w+)\s*\. at i
IntoWaDot(s, i) == WaAlias(s, Kw(s, Space1(s, i), "into"))

\* \s+ASSIGNING\s+<(?P<fs>\w+)>\s*\. at i
AssigningFsDot(s, i) == FsAlias(s, Kw(s, Space1(s, i), "assigning"))

\* index of the last character [^\.]* can reach from i
NoDotRun(s, i) == LET d == FindCh(s, i, ".")
                  IN  IF d = 0 THEN Len(s) ELSE d - 1

\* [^\.]* followed by a tail: the run is greedy, so the tail is matched at the
\* LAST index of i..(end of the run + 1) where it matches.  The tail's \s+
\* starts at a white-space character and may give characters back, so the
\* tail matches at j iff it matches with its white space starting at j.
FarIntoWaDot(s, i) ==
  Rightmost(Hits([j \in i..NoDotRun(s, i) + 1 |-> IntoWaDot(s, j)]))

FarAssigningFsDot(s, i) ==
  Rightmost(Hits([j \in i..NoDotRun(s, i) + 1 |-> AssigningFsDot(s, j)]))

\* \s*\[[^\]]*\]\s+TO\s+<(?P<fs>\w+)>\s*\. at i
IndexedToFs(s, i) ==
  LET close == FindCh(s, LitExact(s, SkipSpace(s, i), "["), "]")
  IN  FsAlias(s, Kw(s, Space1(s, IF close = 0 THEN 0 ELSE close + 1), "to"))

\* a rule's match: the table name at a..b-1 and the tail's alias
WithOwner(s, a, b, t) ==
  IF a = 0 \/ b = 0 \/ t = NoMatch THEN NoMatch
  ELSE [owner |-> SubSeq(s, a, b - 1), alias |-> t.alias, end |-> t.end]

\* each rule matched at i: NoMatch or [owner, alias, end]; (?P<itab>\w+) is
\* at a..b-1 and the tail follows it
LOOP_INTO_RE(s, i) ==
  LET a == LoopAt(s, i)
      b == Word1(s, a)
  IN  WithOwner(s, a, b, IntoWaDot(s, b))

LOOP_ASSIGNING_RE(s, i) ==
  LET a == LoopAt(s, i)
      b == Word1(s, a)
  IN  WithOwner(s, a, b, AssigningFsDot(s, b))

READ_TABLE_INTO_RE(s, i) ==
  LET a == ReadTable(s, i)
      b == Word1(s, a)
  IN  WithOwner(s, a, b, FarIntoWaDot(s, b))

READ_TABLE_ASSIGNING_RE(s, i) ==
  LET a == ReadTable(s, i)
      b == Word1(s, a)
  IN  WithOwner(s, a, b, FarAssigningFsDot(s, b))

\* ASSIGN\s+(?P<itab>\w+)\s*\[[^\]]*\]\s+TO\s+<(?P<fs>\w+)>\s*\.
ASSIGN_FS_ITAB_RE(s, i) ==
  LET a == Kw(s, i, "assign")
      b == Word1(s, a)
  IN  WithOwner(s, a, b, IndexedToFs(s, b))

\* LOOP\s+AT\s+(?P<itab>\w+)\s*\. : the table name is its own alias
HEADER_LINE_LOOP_RE(s, i) ==
  LET a == LoopAt(s, i)
      b == Word1(s, a)
  IN  WithOwner(s, a, b, AliasTo(s, a, b))

(* ------------------- patterns of the field harvester ------------------- *)

\* \b at e, closing the match
Bounded(s, e) == IF e # 0 /\ WordBoundary(s, e) THEN [end |-> e] ELSE NoMatch

\* ASSIGN\s+COMPONENT\s+\w+\s+OF\s+STRUCTURE\s+ re.escape(n) \b  (IGNORECASE)
ASSIGN_COMPONENT_RE(s, i, n) ==
  Bounded(s,
    Lit(s, Kw(s, Kw(s, Space1(s, Word1(s, Kw(s, Kw(s, i, "assign"), "component"))),
                    "of"), "structure"),
        lower(n)))

\* (?P<field>[A-Za-z0-9_]+)(?![A-Za-z0-9_]) at a
Field(s, a) ==
  LET b == Word1(s, a)
  IN  IF b = 0 THEN NoMatch ELSE [field |-> SubSeq(s, a, b - 1), end |-> b]

\* STRUCT_FIELD_RE_TMPL.format(name=re.escape(n)) matched at i, no flags
STRUCT_FIELD_RE(s, i, n) ==
  Field(s, LitExact(s, IF IsWordAt(s, i - 1) THEN 0 ELSE LitExact(s, i, n), "-"))

(* ------------------------------- find_selects -------------------------- *)

\* mutant of Classified: the scalar form tried before the collection form
ClassifiedScalarFirst(m, mi_tab, mi_wa) ==
  [text        |-> m.full,
   table       |-> m.table,
   target_type |-> IF mi_wa # NoMatch THEN "wa"
                   ELSE IF mi_tab # NoMatch THEN "itab" ELSE "implicit",
   target_name |-> IF mi_wa # NoMatch THEN mi_wa.name
                   ELSE IF mi_tab # NoMatch THEN mi_tab.name ELSE m.table,
   span        |-> m.span]

\* the entry find_selects appends for the match m, given what the two INTO
\* patterns found in its body (mi_wa is consulted only "if not mi_tab")
Classified(m, mi_tab, mi_wa) ==
  [text        |-> m.full,
   table       |-> m.table,
   target_type |-> IF mi_tab # NoMatch THEN "itab"
                   ELSE IF mi_wa # NoMatch THEN "wa" ELSE "implicit",
   target_name |-> IF mi_tab # NoMatch THEN mi_tab.name
                   ELSE IF mi_wa # NoMatch THEN mi_wa.name ELSE m.table,
   span        |-> m.span]

Located(m) ==
  Classified(m, search([i \in 1..Len(m.body) |-> INTO_TABLE_RE(m.body, i)]),
                search([i \in 1..Len(m.body) |-> INTO_WA_RE(m.body, i)]))

LocatedAll(ms) == [k \in 1..Len(ms) |-> Located(ms[k].m)]

find_selects(txt) ==
  LocatedAll(finditer([i \in 1..Len(txt) |-> SELECT_STAR_RE(txt, i)]))

(* ----------------------------- binding resolver ------------------------ *)

\* the <<owner, alias>> pairs the matches of one rule add
Edges(ms) == {<<h.m.owner, h.m.alias>> : h \in Range(ms)}

\* the dict itab -> set of aliases, as the set of its <<owner, alias>> edges
build_aliases(source) ==
  Edges(finditer([i \in 1..Len(source) |-> LOOP_INTO_RE(source, i)]))
    \cup Edges(finditer([i \in 1..Len(source) |-> LOOP_ASSIGNING_RE(source, i)]))
    \cup Edges(finditer([i \in 1..Len(source) |-> READ_TABLE_INTO_RE(source, i)]))
    \cup Edges(finditer([i \in 1..Len(source) |-> READ_TABLE_ASSIGNING_RE(source, i)]))
    \cup Edges(finditer([i \in 1..Len(source) |-> ASSIGN_FS_ITAB_RE(source, i)]))
    \cup Edges(finditer([i \in 1..Len(source) |-> HEADER_LINE_LOOP_RE(source, i)]))

\* aliases.get(target_name, set())
AliasesGet(aliases, name) == {e[2] : e \in {x \in aliases : x[1] = name}}

(* --------------------------- field usage harvester --------------------- *)

\* mutant of FieldsOf: .lower() forgotten
FieldsOfAsWritten(s, n) ==
  {h.m.field : h \in Range(finditer([i \in 1..Len(s) |-> STRUCT_FIELD_RE(s, i, n)]))}

FieldsOf(s, n) ==
  {lower(h.m.field) : h \in Range(finditer([i \in 1..Len(s) |-> STRUCT_FIELD_RE(s, i, n)]))}

\* mutant of CandidateNames: the aliases added for every target kind
CandidateNamesAliasedAlways(table, target_type, target_name, aliases) ==
  IF target_type = "implicit" THEN {table} \cup AliasesGet(aliases, table)
  ELSE {target_name} \cup AliasesGet(aliases, target_name)

CandidateNames(table, target_type, target_name, aliases) ==
  IF target_type = "implicit" THEN {table}
  ELSE IF target_type = "itab" THEN {target_name} \cup AliasesGet(aliases, target_name)
  ELSE {target_name}

IsAmbiguous(flat_source, names) ==
  \E n \in names :
    search([i \in 1..Len(flat_source) |-> ASSIGN_COMPONENT_RE(flat_source, i, n)]) # NoMatch

Harvest(flat_source, names) ==
  [fields    |-> UNION {FieldsOf(flat_source, n) : n \in names},
   ambiguous |-> IsAmbiguous(flat_source, names)]

collect_used_fields(flat_source, table, target_type, target_name, aliases) ==
  Harvest(flat_source, CandidateNames(table, target_type, target_name, aliases))

(* --------------------------- statement synthesizer --------------------- *)

\* sorted(fields): the ascending list of a set of strings.  Field names are
\* compared as Python compares str: by code point, character by character.
CodeOrder == "0123456789ABCDEFGHIJKLMNOPQRSTUVWXYZ_abcdefghijklmnopqrstuvwxyz"
Code(c) == CHOOSE i \in 1..Len(CodeOrder) : Ch(CodeOrder, i) = c

RECURSIVE StrLess(_, _)
StrLess(a, b) ==
  IF a = "" THEN b # ""
  ELSE IF b = "" THEN FALSE
  ELSE IF Ch(a, 1) = Ch(b, 1) THEN StrLess(SubSeq(a, 2, Len(a)), SubSeq(b, 2, Len(b)))
  ELSE Code(Ch(a, 1)) < Code(Ch(b, 1))

\* the least string of a non-empty set
Least(S) == CHOOSE x \in S : \A y \in S \ {x} : StrLess(x, y)

RECURSIVE sorted(_)
sorted(S) == IF S = {} THEN <<>> ELSE <<Least(S)>> \o sorted(S \ {Least(S)})

\* mutant of join: a comma between the names
RECURSIVE joinComma(_)
joinComma(l) == IF l = <<>> THEN ""
                ELSE IF Len(l) = 1 THEN l[1]
                ELSE l[1] \o ", " \o joinComma(SubSeq(l, 2, Len(l)))

\* " ".join(list); the list build_replacement_stmt is given is sorted already
RECURSIVE join(_)
join(l) == IF l = <<>> THEN ""
           ELSE IF Len(l) = 1 THEN l[1]
           ELSE l[1] \o " " \o join(SubSeq(l, 2, Len(l)))

\* re.sub(r"\*", explicit, head, count=1)
SubStarOnce(head, explicit) ==
  LET k == FindCh(head, 1, "*")
  IN  IF k = 0 THEN head
      ELSE SubSeq(head, 1, k - 1) \o explicit \o SubSeq(head, k + 1, Len(head))

\* body[:-1] if body.endswith(".")
WithoutFinalDot(body) ==
  IF body # "" /\ Ch(body, Len(body)) = "." THEN SubSeq(body, 1, Len(body) - 1) ELSE body

\* into_cf; "" stands for None ("if into_cf" is false for both)
IntoCf(target_type, target_name) ==
  IF target_type = "itab" THEN "INTO CORRESPONDING FIELDS OF TABLE " \o target_name
  ELSE IF target_type = "wa" THEN "INTO CORRESPONDING FIELDS OF " \o target_name
  ELSE ""

\* the three f-strings
Statement(head, parts, into_cf) ==
  IF into_cf # ""
  THEN IF parts # "" THEN head \o parts \o "\n  " \o into_cf \o "."
       ELSE head \o "\n  " \o into_cf \o "."
  ELSE head \o parts \o "."

\* INTO_TABLE_RE.sub("", body), then INTO_WA_RE.sub("", ...) of the result
WithoutIntoTable(body) == sub([i \in 1..Len(body) |-> INTO_TABLE_RE(body, i)], body)
WithoutIntoWa(body) == sub([i \in 1..Len(body) |-> INTO_WA_RE(body, i)], body)

\* the statement built once the head has been searched for
Rebuilt(sel_text, head_m, fields, target_type, target_name) ==
  IF head_m = NoMatch THEN sel_text
  ELSE Statement(
         SubStarOnce(head_m.group0, IF fields # <<>> THEN join(fields) ELSE "*"),
         strip(WithoutIntoWa(WithoutIntoTable(
                 WithoutFinalDot(SubSeq(sel_text, head_m.end, Len(sel_text)))))),
         IntoCf(target_type, target_name))

\* fields is a list (possibly empty)
build_replacement_stmt(sel_text, table, fields, target_type, target_name) ==
  Rebuilt(sel_text, search([i \in 1..Len(sel_text) |-> HeadMatch(sel_text, i)]),
          fields, target_type, target_name)

(* ---------------------------- remediation applier ---------------------- *)

\* mutant of SortedByStartDesc: reverse=True forgotten
SortedByStartAsc(repls) ==
  LET before(i, j) == \/ repls[i].span[1] < repls[j].span[1]
                      \/ repls[i].span[1] = repls[j].span[1] /\ i < j
      rank(j) == Cardinality({i \in 1..Len(repls) : before(i, j)}) + 1
  IN  [k \in 1..Len(repls) |-> repls[CHOOSE j \in 1..Len(repls) : rank(j) = k]]

\* sorted(repls, key=lambda x: x[0][0], reverse=True): a stable sort, so
\* replacements with equal start offsets keep their listed order.  Element k
\* of the result is the listed replacement with exactly k - 1 others before it.
SortedByStartDesc(repls) ==
  LET before(i, j) == \/ repls[i].span[1] > repls[j].span[1]
                      \/ repls[i].span[1] = repls[j].span[1] /\ i < j
      rank(j) == Cardinality({i \in 1..Len(repls) : before(i, j)}) + 1
  IN  [k \in 1..Len(repls) |-> repls[CHOOSE j \in 1..Len(repls) : rank(j) = k]]

RECURSIVE ApplyInOrder(_, _)
ApplyInOrder(out, l) ==
  IF l = <<>> THEN out
  ELSE LET s == l[1].span[1]
           e == l[1].span[2]
       IN  ApplyInOrder(SubSeq(out, 1, s) \o l[1].new_text \o SubSeq(out, e + 1, Len(out)),
                        SubSeq(l, 2, Len(l)))

apply_span_replacements(source, repls) == ApplyInOrder(source, SortedByStartDesc(repls))

(* -------------------------------- endpoints ---------------------------- *)

\* u.code or ""
CodeOf(u) == IF u.code = None THEN "" ELSE u.code[1]

RECURSIVE concat_units(_)
concat_units(us) ==
  IF us = <<>> THEN ""
  ELSE CodeOf(us[1]) \o "\n" \o concat_units(SubSeq(us, 2, Len(us)))

\* mutants of Qualifies: a test that forgets the ambiguity flag, and one that
\* forgets the empty field set
QualifiesIgnoringAmbiguity(usage) == usage.fields # {}
QualifiesIgnoringEmptiness(usage) == ~usage.ambiguous

\* "used and not ambiguous"
Qualifies(usage) == usage.fields # {} /\ ~usage.ambiguous

\* the entry appended to sel_results; "if suggested_fields" is false for None
\* and for an empty list
SelResult(sel, usage, suggested_fields) ==
  [table               |-> sel.table,
   target_type         |-> sel.target_type,
   target_name         |-> sel.target_name,
   start_char_in_unit  |-> sel.span[1],
   end_char_in_unit    |-> sel.span[2],
   used_fields         |-> sorted(usage.fields),
   ambiguous           |-> usage.ambiguous,
   suggested_fields    |-> suggested_fields,
   suggested_statement |->
     IF suggested_fields # None /\ suggested_fields[1] # <<>>
     THEN Some(build_replacement_stmt(sel.text, sel.table, suggested_fields[1],
                                      sel.target_type, sel.target_name))
     ELSE None]

Suggested(sel, usage) ==
  SelResult(sel, usage, IF Qualifies(usage) THEN Some(sorted(usage.fields)) ELSE None)

AnalyzeSelect(flat_source, aliases, sel) ==
  Suggested(sel, collect_used_fields(flat_source, sel.table, sel.target_type,
                                     sel.target_name, aliases))

AnalyzeSelects(flat_source, aliases, selects) ==
  [k \in 1..Len(selects) |-> AnalyzeSelect(flat_source, aliases, selects[k])]

AnalyzeUnit(flat_source, aliases, u) ==
  [code    |-> u.code,
   selects |-> AnalyzeSelects(flat_source, aliases, find_selects(CodeOf(u)))]

\* what the loop of remediate_array appends for one statement
Replacement(sel, usage) ==
  IF Qualifies(usage)
  THEN <<[span     |-> sel.span,
          new_text |-> build_replacement_stmt(sel.text, sel.table, sorted(usage.fields),
                                              sel.target_type, sel.target_name)]>>
  ELSE <<>>

\* the replacements list of one unit, in the order the loop appends them
RECURSIVE Replacements(_, _, _)
Replacements(flat_source, aliases, selects) ==
  IF selects = <<>> THEN <<>>
  ELSE Replacement(selects[1],
                   collect_used_fields(flat_source, selects[1].table,
                                       selects[1].target_type, selects[1].target_name,
                                       aliases))
         \o Replacements(flat_source, aliases, SubSeq(selects, 2, Len(selects)))

RemediateUnit(flat_source, aliases, u) ==
  [code            |-> u.code,
   remediated_code |-> apply_span_replacements(CodeOf(u),
                          Replacements(flat_source, aliases, find_selects(CodeOf(u))))]

AnalyzeUnits(us, flat_source, aliases) ==
  [k \in 1..Len(us) |-> AnalyzeUnit(flat_source, aliases, us[k])]

RemediateUnits(us, flat_source, aliases) ==
  [k \in 1..Len(us) |-> RemediateUnit(flat_source, aliases, us[k])]

AnalyzeBatch(us) ==
  LET flat_source == concat_units(us)
  IN  AnalyzeUnits(us, flat_source, build_aliases(flat_source))

RemediateBatch(us) ==
  LET flat_source == concat_units(us)
  IN  RemediateUnits(us, flat_source, build_aliases(flat_source))

(* ------------------------------ state machine -------------------------- *)

\* the unit texts requests are assembled from
UnitTexts ==
  { "SELECT * FROM spfli INTO wa_spfli. WRITE wa_spfli-carrid. WRITE wa_spfli-connid.",
    "SELECT * FROM mara INTO TABLE it_mara. LOOP AT it_mara INTO wa. WRITE wa-matnr. ENDLOOP.",
    "SELECT SINGLE * FROM vbak WHERE vbeln = p_v INTO wa_vbak. WRITE wa_vbak-erdat.",
    "SELECT * FROM mara. WRITE mara-mtart. select * from vbak\n  into wa_vbak where vbeln = p_v.",
    "SELECT * FROM mara WHERE matnr = p_m. WRITE mara-matnr. ENDSELECT.",
    "SELECT * FROM mara INTO wa\n  WHERE a = 1 INTO TABLE it_mara.",
    "WRITE WA_SPFLI-CITYTO. WRITE wa_vbak-Vbeln. x = xwa_vbak-foo.",
    "LOOP AT it_mara ASSIGNING <fs>. WRITE <fs>-mtart. ENDLOOP.",
    "ASSIGN COMPONENT lv_name OF STRUCTURE wa_vbak TO <f>. x = wa_vbak-netwr.",
    "ASSIGN COMPONENT 'CARRID' OF STRUCTURE wa_spfli TO <f>.",
    "ASSIGN COMPONENT lv_name OF STRUCTURE <fs> TO <f>.",
    "assign component idx of structure MARA to <f>.",
    "LOOP AT mara INTO ls. ls-ernam = mara-brgew. wa_vbak-ERDAT = wa_vbak-bukrs." }

\* Unit.code is Optional[str]
UnitCodes == {None, Some("")} \cup {Some(c) : c \in UnitTexts}

Init ==
  /\ units = <<>>
  /\ endpoint = "none"
  /\ response = <<>>
  /\ spSource = ""
  /\ spRepls = <<>>
  /\ spOut = None

AddUnit(c) ==
  /\ endpoint = "none"
  /\ Len(units) < MaxUnits
  /\ units' = Append(units, [code |-> c])
  /\ UNCHANGED <<endpoint, response, spSource, spRepls, spOut>>

analyze_array ==
  /\ endpoint = "none"
  /\ endpoint' = "analyze"
  /\ response' = AnalyzeBatch(units)
  /\ UNCHANGED <<units, spSource, spRepls, spOut>>

remediate_array ==
  /\ endpoint = "none"
  /\ endpoint' = "remediate"
  /\ response' = RemediateBatch(units)
  /\ UNCHANGED <<units, spSource, spRepls, spOut>>

Next ==
  \/ \E c \in UnitCodes : AddUnit(c)
  \/ analyze_array
  \/ remediate_array

Spec == Init /\ [][Next]_vars

(* ------------- apply_span_replacements on its own inputs -------------- *)

SpliceSources == {"abc", "abcd"}
NewTexts == {"X", "YZW"}

Overlap(a, b) == a.span[1] < b.span[2] /\ b.span[1] < a.span[2]

SpliceInit ==
  /\ units = <<>>
  /\ endpoint = "none"
  /\ response = <<>>
  /\ spSource \in SpliceSources
  /\ spRepls = <<>>
  /\ spOut = None

\* one more replacement on a sub-range of the text that overlaps none of those
\* listed so far
AddReplacement(s, e, r) ==
  LET repl == [span |-> <<s, e>>, new_text |-> r]
  IN  /\ spOut = None
      /\ Len(spRepls) < MaxRepls
      /\ s <= e /\ e <= Len(spSource)
      /\ \A k \in 1..Len(spRepls) : spRepls[k] # repl /\ ~Overlap(spRepls[k], repl)
      /\ spRepls' = Append(spRepls, repl)
      /\ UNCHANGED <<units, endpoint, response, spSource, spOut>>

ApplySplice ==
  /\ spOut = None
  /\ spOut' = Some(apply_span_replacements(spSource, spRepls))
  /\ UNCHANGED <<units, endpoint, response, spSource, spRepls>>

SpliceNext ==
  \/ \E s \in 0..Len(spSource), e \in 0..Len(spSource), r \in NewTexts : AddReplacement(s, e, r)
  \/ ApplySplice

SpliceSpec == SpliceInit /\ [][SpliceNext]_vars

(* ------------------------------- properties ---------------------------- *)

Corpus == concat_units(units)

\* what Analyze reports for the current batch
Findings(k) == AnalyzeBatch(units)[k].selects

\* the statement a finding is about: the unit's text inside the finding's span
StmtText(k, f) == SubSeq(CodeOf(units[k]), f.start_char_in_unit + 1, f.end_char_in_unit)

\* the text between the source-table name and the terminating period
StmtBody(k, f) == LET t == StmtText(k, f)
                  IN  SubSeq(t, SelectHead(t, 1), Len(t) - 1)

\* the harvested used-field set is non-empty and ambiguous is false
Offered(f) == f.used_fields # <<>> /\ f.ambiguous = FALSE

\* the text of unit k with the spans of the offered findings replaced by their
\* suggested statements and everything else copied, built from left to right
RECURSIVE SpliceFromLeft(_, _, _)
SpliceFromLeft(code, fs, from) ==
  IF fs = <<>> THEN SubSeq(code, from + 1, Len(code))
  ELSE LET f == fs[1]
       IN  SubSeq(code, from + 1, f.start_char_in_unit)
           \o (IF Offered(f) THEN f.suggested_statement[1]
               ELSE SubSeq(code, f.start_char_in_unit + 1, f.end_char_in_unit))
           \o SpliceFromLeft(code, SubSeq(fs, 2, Len(fs)), f.end_char_in_unit)

\* C1: Analyze returns suggested_fields and suggested_statement exactly for
\* the statements whose used-field set is non-empty and not ambiguous, and
\* Remediate replaces the spans of exactly those statements: every other
\* character of the unit, the spans of ambiguous and empty-field statements
\* included, is as in the input.
SuggestionIffSoundAndNonEmpty ==
  /\ endpoint = "analyze" =>
       \A k \in 1..Len(response) : \A f \in Range(response[k].selects) :
         /\ (f.suggested_fields # None) <=> Offered(f)
         /\ (f.suggested_statement # None) <=> Offered(f)
  /\ endpoint = "remediate" =>
       \A k \in 1..Len(response) :
         response[k].remediated_code = SpliceFromLeft(CodeOf(units[k]), Findings(k), 0)

\* a remediated unit holding an offered statement, rewritten, before an
\* ambiguous one with harvested fields, kept
WitnessOneReplacedOneKept ==
  /\ endpoint = "remediate"
  /\ \E k \in 1..Len(units) :
       /\ \E f \in Range(Findings(k)) : Offered(f)
       /\ \E f \in Range(Findings(k)) : f.ambiguous /\ f.used_fields # <<>>
       /\ response[k].remediated_code # CodeOf(units[k])

\* C5: a located statement is classified by its body alone: InternalTable,
\* named after INTO TABLE, when an INTO TABLE clause occurs anywhere in the
\* body, also when a scalar INTO occurs as well; otherwise WorkArea, named
\* after INTO, when a scalar INTO clause occurs anywhere in the body; otherwise
\* Implicit, named by the source table.
ClassifiedByBodyAlone ==
  endpoint = "analyze" =>
    \A k \in 1..Len(response) : \A f \in Range(response[k].selects) :
      LET body   == StmtBody(k, f)
          tabs   == {INTO_TABLE_RE(body, i).name :
                       i \in {j \in 1..Len(body) : INTO_TABLE_RE(body, j) # NoMatch}}
          was    == {INTO_WA_RE(body, i).name :
                       i \in {j \in 1..Len(body) : INTO_WA_RE(body, j) # NoMatch}}
      IN  IF tabs # {} THEN f.target_type = "itab" /\ f.target_name \in tabs
          ELSE IF was # {} THEN f.target_type = "wa" /\ f.target_name \in was
          ELSE f.target_type = "implicit" /\ f.target_name = f.table

\* a statement with a scalar INTO before its filter and an INTO TABLE after it,
\* classified InternalTable; and one whose INTO follows the filter
WitnessBothReceivingClauses ==
  /\ endpoint = "analyze"
  /\ \E k \in 1..Len(response) : \E f \in Range(response[k].selects) :
       /\ search([i \in 1..Len(StmtBody(k, f)) |-> INTO_WA_RE(StmtBody(k, f), i)]) # NoMatch
       /\ search([i \in 1..Len(StmtBody(k, f)) |-> INTO_TABLE_RE(StmtBody(k, f), i)]) # NoMatch
       /\ f.target_type = "itab"
  /\ \E k \in 1..Len(response) : \E f \in Range(response[k].selects) :
       /\ f.target_type = "wa"
       /\ Lit(strip(StmtBody(k, f)), 1, "where") # 0

\* C10: Remediate returns every unit, and returns unchanged the text of a unit
\* with no qualifying statement: one whose text is absent or empty, holds no
\* fetch-all statement, or holds only ambiguous or empty-field statements.
UnchangedWithoutQualifyingStatement ==
  endpoint = "remediate" =>
    /\ Len(response) = Len(units)
    /\ \A k \in 1..Len(units) :
         (\A f \in Range(Findings(k)) : ~Offered(f))
           => response[k].remediated_code = CodeOf(units[k])

\* a remediated batch with an absent text next to a unit whose statements are
\* all ambiguous or without used fields
WitnessSuppressedUnitsKept ==
  /\ endpoint = "remediate"
  /\ \E k \in 1..Len(units) : units[k].code = None /\ response[k].remediated_code = ""
  /\ \E k \in 1..Len(units) :
       /\ Findings(k) # <<>>
       /\ \A f \in Range(Findings(k)) : ~Offered(f)
       /\ response[k].remediated_code = CodeOf(units[k])

(* dynamic component accesses, as the claims describe them: ASSIGN COMPONENT *)
(* <operand> OF STRUCTURE <s>, the operand being any run of characters      *)
(* without white space (a name, an index, a literal, a component)           *)

RECURSIVE SkipNonSpace(_, _)
SkipNonSpace(s, i) ==
  IF i >= 1 /\ i <= Len(s) /\ ~IsSpaceAt(s, i) THEN SkipNonSpace(s, i + 1) ELSE i

\* the index where the structure operand of a dynamic access at i starts, or 0
StructureOperand(s, i) ==
  LET p1 == Lit(s, i, "assign")
      p2 == Space1(s, p1)
      p3 == Lit(s, p2, "component")
      p4 == Space1(s, p3)
      p5 == IF p4 = 0 \/ SkipNonSpace(s, p4) = p4 THEN 0 ELSE SkipNonSpace(s, p4)
      p6 == Space1(s, p5)
      p7 == Lit(s, p6, "of")
      p8 == Space1(s, p7)
      p9 == Lit(s, p8, "structure")
  IN  IF p1 = 0 THEN 0 ELSE Space1(s, p9)

DynamicAccessOnName(s, name) ==
  \E i \in 1..Len(s) :
    LET p == StructureOperand(s, i)
    IN  p # 0 /\ LitExact(s, p, name) # 0 /\ ~IsWordAt(s, p + Len(name))

DynamicAccessOnFieldSymbol(s) ==
  \E i \in 1..Len(s) :
    LET p == StructureOperand(s, i)
    IN  p # 0 /\ FieldSymbol(s, p) # 0

\* C2: a statement of any target kind whose exact target name is the structure
\* operand of a dynamic component access anywhere in the corpus is reported
\* ambiguous, with no suggested fields and no suggested statement, whatever
\* form the runtime operand takes.
DynamicAccessOnTargetIsAmbiguous ==
  endpoint = "analyze" =>
    \A k \in 1..Len(response) : \A f \in Range(response[k].selects) :
      DynamicAccessOnName(Corpus, f.target_name)
        => /\ f.ambiguous
           /\ f.suggested_fields = None
           /\ f.suggested_statement = None

\* C3: when the corpus holds a dynamic component access on any field symbol,
\* every InternalTable statement is ambiguous, gets no suggestion and is not
\* replaced.
DynamicAccessOnFieldSymbolIsAmbiguous ==
  /\ endpoint = "analyze" /\ DynamicAccessOnFieldSymbol(Corpus) =>
       \A k \in 1..Len(response) : \A f \in Range(response[k].selects) :
         f.target_type = "itab"
           => /\ f.ambiguous
              /\ f.suggested_fields = None
              /\ f.suggested_statement = None
  /\ endpoint = "remediate" /\ DynamicAccessOnFieldSymbol(Corpus) =>
       \A k \in 1..Len(response) :
         (\A f \in Range(Findings(k)) : f.target_type = "itab")
           => response[k].remediated_code = CodeOf(units[k])

\* C4: for every candidate name n of a statement, every occurrence in the
\* corpus of n in any letter case, not preceded by an identifier character and
\* followed by '-' and an identifier f, puts the lower-cased f into the
\* statement's used fields.
HarvestIgnoresCaseOfName ==
  endpoint = "analyze" =>
    LET aliases == build_aliases(Corpus)
    IN  \A k \in 1..Len(response) : \A f \in Range(response[k].selects) :
          \A n \in CandidateNames(f.table, f.target_type, f.target_name, aliases) :
            \A i \in 1..Len(Corpus) :
              LET p1 == IF IsWordAt(Corpus, i - 1) THEN 0 ELSE Lit(Corpus, i, lower(n))
                  p2 == LitExact(Corpus, p1, "-")
                  p3 == Word1(Corpus, p2)
              IN  p3 # 0 => lower(SubSeq(Corpus, p2, p3 - 1)) \in Range(f.used_fields)

(* the synthesized statement *)

\* head: the statement's text from the fetch-all keyword through the table name
StmtHead(k, f) == LET t == StmtText(k, f) IN SubSeq(t, 1, SelectHead(t, 1) - 1)

\* a WorkArea fetch-all statement with no filter clauses: SELECT * FROM t INTO w.
PlainWorkAreaStmt(k, f) ==
  StmtText(k, f) = "SELECT * FROM " \o f.table \o " INTO " \o f.target_name \o "."

Scenario == "SELECT * FROM spfli INTO wa_spfli. WRITE wa_spfli-carrid. WRITE wa_spfli-connid."

\* what Analyze returns for the scenario, the receiving clause after sep
ScenarioFinding(sep) ==
  [table               |-> "spfli",
   target_type         |-> "wa",
   target_name         |-> "wa_spfli",
   start_char_in_unit  |-> 0,
   end_char_in_unit    |-> 34,
   used_fields         |-> <<"carrid", "connid">>,
   ambiguous           |-> FALSE,
   suggested_fields    |-> Some(<<"carrid", "connid">>),
   suggested_statement |-> Some("SELECT carrid connid FROM spfli" \o sep
                                  \o "INTO CORRESPONDING FIELDS OF wa_spfli.")]

PlainWorkAreaSuggestion(sep) ==
  endpoint = "analyze" =>
    /\ \A k \in 1..Len(response) : \A f \in Range(response[k].selects) :
         PlainWorkAreaStmt(k, f) =>
           /\ f.target_type = "wa"
           /\ Offered(f) =>
                f.suggested_statement =
                  Some("SELECT " \o join(f.used_fields) \o " FROM " \o f.table \o sep
                         \o "INTO CORRESPONDING FIELDS OF " \o f.target_name \o ".")
    /\ units = <<[code |-> Some(Scenario)]>> =>
         response = <<[code |-> Some(Scenario), selects |-> <<ScenarioFinding(sep)>>]>>

\* C6 as stated: for SELECT * FROM t INTO w. followed by references w-f1 and
\* w-f2, Analyze returns one finding (table t, WorkArea w, used fields
\* {f1, f2}, not ambiguous) whose suggested statement is 'SELECT f1 f2 FROM t
\* INTO CORRESPONDING FIELDS OF w.' with single spaces between all tokens.
PlainWorkAreaSuggestionSingleSpaced == PlainWorkAreaSuggestion(" ")

\* C6, amended: the same finding, the suggested statement being 'SELECT f1 f2
\* FROM t', a line break and two spaces, then 'INTO CORRESPONDING FIELDS OF w.'
PlainWorkAreaSuggestionOnNewLine == PlainWorkAreaSuggestion("\n  ")

\* the scenario analysed on its own, its statement offered
WitnessScenarioAnalysed ==
  /\ endpoint = "analyze"
  /\ units = <<[code |-> Some(Scenario)]>>
  /\ \E f \in Range(response[1].selects) : PlainWorkAreaStmt(1, f) /\ Offered(f)

\* the body without its receiving clause: the leftmost INTO TABLE clause of an
\* InternalTable statement, the leftmost scalar INTO clause of a WorkArea one
WithoutFirst(s, hits) ==
  SubSeq(s, 1, First(hits).start - 1) \o SubSeq(s, First(hits).m.end, Len(s))

BodyWithoutReceivingClause(k, f) ==
  IF f.target_type = "itab"
  THEN WithoutFirst(StmtBody(k, f),
                    Hits([i \in 1..Len(StmtBody(k, f)) |-> INTO_TABLE_RE(StmtBody(k, f), i)]))
  ELSE WithoutFirst(StmtBody(k, f),
                    Hits([i \in 1..Len(StmtBody(k, f)) |-> INTO_WA_RE(StmtBody(k, f), i)]))

NormalizedReceivingClause(f) ==
  IF f.target_type = "itab" THEN "INTO CORRESPONDING FIELDS OF TABLE " \o f.target_name
  ELSE "INTO CORRESPONDING FIELDS OF " \o f.target_name

\* C7: for a WorkArea or InternalTable statement with filter or ordering text,
\* the suggested statement is the head with only the wildcard replaced, then
\* the body without the receiving clause, verbatim from the separator after
\* the table name on, then the normalized receiving clause, then one period.
FilterTextKeptVerbatim ==
  endpoint = "analyze" =>
    \A k \in 1..Len(response) : \A f \in Range(response[k].selects) :
      (/\ f.target_type \in {"wa", "itab"}
       /\ f.suggested_statement # None
       /\ strip(BodyWithoutReceivingClause(k, f)) # "")
      => LET stmt == f.suggested_statement[1]
             pre  == SubStarOnce(StmtHead(k, f), join(f.suggested_fields[1]))
                       \o rstrip(BodyWithoutReceivingClause(k, f))
             suf  == NormalizedReceivingClause(f) \o "."
         IN  /\ Len(stmt) >= Len(pre) + Len(suf)
             /\ SubSeq(stmt, 1, Len(pre)) = pre
             /\ SubSeq(stmt, Len(stmt) - Len(suf) + 1, Len(stmt)) = suf
             /\ strip(SubSeq(stmt, Len(pre) + 1, Len(stmt) - Len(suf))) = ""
             /\ FindCh(stmt, 1, ".") = Len(stmt)

\* C8: the statement suggested for an Implicit target is the original statement
\* with the wildcard replaced by the sorted field list and nothing else changed.
ImplicitOnlyWildcardReplaced ==
  endpoint = "analyze" =>
    \A k \in 1..Len(response) : \A f \in Range(response[k].selects) :
      (f.target_type = "implicit" /\ f.suggested_statement # None)
      => f.suggested_statement[1]
           = SubStarOnce(StmtText(k, f), join(f.suggested_fields[1]))

(* the remediation applier *)

\* the listed replacements in ascending order of span
AscendingBySpan(repls) ==
  LET before(i, j) == \/ repls[i].span[1] < repls[j].span[1]
                      \/ repls[i].span[1] = repls[j].span[1] /\ repls[i].span[2] < repls[j].span[2]
                      \/ repls[i].span = repls[j].span /\ i < j
      rank(j) == Cardinality({i \in 1..Len(repls) : before(i, j)}) + 1
  IN  [k \in 1..Len(repls) |-> repls[CHOOSE j \in 1..Len(repls) : rank(j) = k]]

\* the simultaneous splice: the text outside the spans copied in its order,
\* each span's content replaced by its new text
RECURSIVE SpliceAscending(_, _, _)
SpliceAscending(source, l, from) ==
  IF l = <<>> THEN SubSeq(source, from + 1, Len(source))
  ELSE SubSeq(source, from + 1, l[1].span[1]) \o l[1].new_text
         \o SpliceAscending(source, SubSeq(l, 2, Len(l)), l[1].span[2])

SimultaneousSplice(source, repls) == SpliceAscending(source, AscendingBySpan(repls), 0)

ListingOrders(n) == {p \in [1..n -> 1..n] : \A i, j \in 1..n : p[i] = p[j] => i = j}

\* the result is the simultaneous splice, in whatever order the replacements
\* are listed
SpliceInAnyOrder ==
  /\ spOut[1] = SimultaneousSplice(spSource, spRepls)
  /\ \A p \in ListingOrders(Len(spRepls)) :
       apply_span_replacements(spSource, [k \in 1..Len(spRepls) |-> spRepls[p[k]]]) = spOut[1]

DistinctStarts(repls) ==
  \A i, j \in 1..Len(repls) : repls[i].span[1] = repls[j].span[1] => i = j

\* C9 as stated: for replacements on pairwise non-overlapping sub-ranges of
\* the text, the result equals the simultaneous splice, independent of the
\* order in which they are listed and of the lengths of the new texts.
SpliceOfNonOverlappingSpans == spOut # None => SpliceInAnyOrder

\* C9, amended: for replacements on pairwise non-overlapping sub-ranges of the
\* text that start at pairwise distinct offsets, the result equals the
\* simultaneous splice, independent of the order in which they are listed and
\* of the lengths of the new texts.
SpliceOfSpansWithDistinctStarts ==
  (spOut # None /\ DistinctStarts(spRepls)) => SpliceInAnyOrder

\* two spans replaced in one pass, listed in ascending order, the first new
\* text longer than its span and the second shorter
WitnessTwoSpansSpliced ==
  /\ spOut # None
  /\ Len(spRepls) = 2
  /\ spRepls[1].span[2] <= spRepls[2].span[1]
  /\ spRepls[1].span[1] < spRepls[1].span[2]
  /\ Len(spRepls[1].new_text) > spRepls[1].span[2] - spRepls[1].span[1]
  /\ Len(spRepls[2].new_text) < spRepls[2].span[2] - spRepls[2].span[1]
  /\ spOut[1] = SimultaneousSplice(spSource, spRepls)

(* the suggested column lists *)

\* the names of l are lower-case: str.lower() leaves each as it is
AllLowerCase(l) == \A i \in 1..Len(l) : lower(l[i]) = l[i]

\* l ascends strictly in code-point order, so it holds no name twice
StrictlyAscending(l) == \A i \in 1..Len(l) - 1 : StrLess(l[i], l[i + 1])

\* stmt is the head of finding f with the names of l, single-spaced, in the
\* place of the wildcard, followed by anything
ColumnListIs(k, f, stmt, l) ==
  LET head == StmtHead(k, f)
      star == FindCh(head, 1, "*")
      pre  == SubSeq(head, 1, star - 1) \o join(l) \o SubSeq(head, star + 1, Len(head))
  IN  Len(stmt) >= Len(pre) /\ SubSeq(stmt, 1, Len(pre)) = pre

\* C11: every non-null suggested_fields list of Analyze, and every column
\* list spliced into a synthesized statement by Analyze or Remediate, holds
\* only lower-case names, holds none twice, and ascends lexicographically.
ColumnListsLowerCaseSortedDistinct ==
  /\ endpoint = "analyze" =>
       \A k \in 1..Len(response) : \A f \in Range(response[k].selects) :
         /\ f.suggested_fields # None =>
              AllLowerCase(f.suggested_fields[1]) /\ StrictlyAscending(f.suggested_fields[1])
         /\ f.suggested_statement # None =>
              /\ f.suggested_fields # None
              /\ ColumnListIs(k, f, f.suggested_statement[1], f.suggested_fields[1])
  /\ endpoint = "remediate" =>
       \A k \in 1..Len(response) :
         /\ response[k].remediated_code = SpliceFromLeft(CodeOf(units[k]), Findings(k), 0)
         /\ \A f \in Range(Findings(k)) :
              Offered(f) =>
                /\ AllLowerCase(f.used_fields) /\ StrictlyAscending(f.used_fields)
                /\ ColumnListIs(k, f, f.suggested_statement[1], f.used_fields)

\* an analysed statement with two suggested fields, one of them referenced in
\* the corpus both in lower case and in upper case
WitnessReferencesCollapsed ==
  /\ endpoint = "analyze"
  /\ \E k \in 1..Len(response) : \E f \in Range(response[k].selects) :
       /\ f.suggested_fields # None
       /\ Len(f.suggested_fields[1]) >= 2
       /\ \E i, j \in 1..Len(Corpus) :
            LET mi == STRUCT_FIELD_RE(Corpus, i, f.target_name)
                mj == STRUCT_FIELD_RE(Corpus, j, f.target_name)
            IN  /\ mi # NoMatch /\ mj # NoMatch
                /\ mi.field # mj.field
                /\ lower(mi.field) = mj.field

(* the located statements *)

\* C12: the statements located in one unit's text have spans that lie within
\* that text, in strictly increasing start-offset order, pairwise
\* non-overlapping; each span starts with the fetch-all keyword sequence and
\* source-table name and ends at the first period after them, so the matched
\* text holds exactly one period, its last character.
SpansInSourceOrderEndAtFirstPeriod ==
  endpoint = "analyze" =>
    \A k \in 1..Len(response) :
      /\ \A f \in Range(response[k].selects) :
           /\ 0 <= f.start_char_in_unit
           /\ f.start_char_in_unit < f.end_char_in_unit
           /\ f.end_char_in_unit <= Len(CodeOf(units[k]))
           /\ SelectHead(StmtText(k, f), 1) # 0
           /\ FindCh(StmtText(k, f), SelectHead(StmtText(k, f), 1), ".") = Len(StmtText(k, f))
           /\ FindCh(StmtText(k, f), 1, ".") = Len(StmtText(k, f))
      /\ \A i, j \in 1..Len(response[k].selects) :
           i < j =>
             /\ response[k].selects[i].start_char_in_unit
                  < response[k].selects[j].start_char_in_unit
             /\ response[k].selects[i].end_char_in_unit
                  <= response[k].selects[j].start_char_in_unit

\* a unit with two located statements and another statement, with its own
\* period, between them
WitnessTwoStatementsLocated ==
  /\ endpoint = "analyze"
  /\ \E k \in 1..Len(response) :
       /\ Len(response[k].selects) = 2
       /\ response[k].selects[1].end_char_in_unit < response[k].selects[2].start_char_in_unit
       /\ \E j \in response[k].selects[1].end_char_in_unit + 1
                    ..response[k].selects[2].start_char_in_unit :
            Ch(CodeOf(units[k]), j) = "."

(* the candidate names *)

\* the aliases the Binding Map, built from the whole corpus, records for name
BoundAliases(name) == {e[2] : e \in {x \in build_aliases(Corpus) : x[1] = name}}

\* the candidate names the claim gives a finding
ClaimedCandidates(f) ==
  IF f.target_type = "itab" THEN {f.target_name} \cup BoundAliases(f.target_name)
  ELSE {f.target_name}

TableLoopUnit ==
  "SELECT * FROM mara INTO TABLE it_mara. LOOP AT it_mara INTO wa. WRITE wa-matnr. ENDLOOP."

\* C13: the candidate names of a statement are its target name and, for an
\* InternalTable target only, the aliases the Binding Map built from the
\* concatenation of all units records for it; the used fields are the union
\* over these names of the fields dereferenced anywhere in the corpus, other
\* units included.  SELECT * FROM mara INTO TABLE it_mara. LOOP AT it_mara
\* INTO wa. WRITE wa-matnr. yields alias wa and used fields {matnr}.
CandidatesByTargetKind ==
  endpoint = "analyze" =>
    /\ \A k \in 1..Len(response) : \A f \in Range(response[k].selects) :
         Range(f.used_fields) = UNION {FieldsOf(Corpus, n) : n \in ClaimedCandidates(f)}
    /\ units = <<[code |-> Some(TableLoopUnit)]>> =>
         /\ BoundAliases("it_mara") = {"wa"}
         /\ Len(response[1].selects) = 1
         /\ response[1].selects[1].target_type = "itab"
         /\ response[1].selects[1].used_fields = <<"matnr">>

\* an Implicit statement whose table name has an alias in the Binding Map with
\* a field dereferenced through it, and whose used fields hold a field
\* dereferenced only in another unit
WitnessAliasOfImplicitTargetUnused ==
  /\ endpoint = "analyze"
  /\ \E k \in 1..Len(response) : \E f \in Range(response[k].selects) :
       /\ f.target_type = "implicit"
       /\ \E a \in BoundAliases(f.target_name) :
            /\ FieldsOf(Corpus, a) # {}
            /\ FieldsOf(Corpus, a) \cap Range(f.used_fields) = {}
       /\ \E x \in Range(f.used_fields) : x \notin FieldsOf(CodeOf(units[k]), f.target_name)

(* Remediate run on its own output *)

\* unit texts for the batches handed to Remediate twice
ResubmitTexts ==
  { "SELECT * FROM mara. WRITE mara-matnr.",
    "SELECT * FROM mara INTO TABLE it. LOOP AT it INTO wa. x = wa-b.",
    "SELECT * FROM vbak INTO wa WHERE a = 1. x = wa-a.",
    "SELECT * FROM t INTO w2. ASSIGN COMPONENT n OF STRUCTURE w2 TO <f>. w2-a.",
    "SELECT * FROM marc INTO w3.",
    "SELECT * FROM mara WHERE a IN ( SELECT * FROM marc ). x = mara-a. y = marc-b.",
    "y = w3-c." }

ResubmitCodes == {None} \cup {Some(c) : c \in ResubmitTexts}

\* the caller posts the texts the first call returned as a new batch
Resubmit ==
  /\ endpoint = "remediate"
  /\ units' = [k \in 1..Len(response) |-> [code |-> Some(response[k].remediated_code)]]
  /\ endpoint' = "resubmitted"
  /\ response' = <<>>
  /\ UNCHANGED <<spSource, spRepls, spOut>>

\* the second call of the handler, on the resubmitted batch
remediate_array_again ==
  /\ endpoint = "resubmitted"
  /\ endpoint' = "remediate again"
  /\ response' = RemediateBatch(units)
  /\ UNCHANGED <<units, spSource, spRepls, spOut>>

ResubmitNext ==
  \/ \E c \in ResubmitCodes : AddUnit(c)
  \/ remediate_array
  \/ Resubmit
  \/ remediate_array_again

ResubmitSpec == Init /\ [][ResubmitNext]_vars

\* C14: Remediate is idempotent over whole batches: when the texts returned by
\* Remediate are fed back in as a new batch, the second run returns every
\* unit's text unchanged.
RemediateIdempotent ==
  endpoint = "remediate again" =>
    \A k \in 1..Len(response) : response[k].remediated_code = CodeOf(units[k])

====
